---- MODULE Spec2Model ----
(***************************************************************************)
(* The AI provider orchestrator of the legal-assistance server             *)
(* (services/AIService.js, class MultiAIService) and the HTTP handlers     *)
(* that call it.                                                           *)
(*                                                                         *)
(* JavaScript values are records with a tag t; a string is the sequence of *)
(* its tokens (words, separators), so that toLowerCase, includes, template *)
(* strings and the regular expressions are computed, token by token.       *)
(***************************************************************************)
EXTENDS Integers, Sequences, FiniteSets, TLC

VARIABLES
    providers,   \* this.providers: the entries in insertion order
    lastError,   \* this.lastError: provider key -> message of its last failure
    timers,      \* pending setTimeout callbacks, in the order set: [key, duration]
    inv,         \* the generation invocations in flight, one per slot
    probe,       \* the pure function under check: [fn, arg, done, out]
    http         \* the requests of the two AI routes and the summaries file

vars == <<providers, lastError, timers, inv, probe, http>>

-----------------------------------------------------------------------------
(* Bounds of the model *)

MaxInv == 2
MaxTimers == 2

(* Constants of the program *)

DefaultCooldown == 300000
QuotaCooldown == 3600000
TransientCooldown == 60000

-----------------------------------------------------------------------------
(* JavaScript values *)

Undefined == [t |-> "undefined"]
Null == [t |-> "null"]
Str(toks) == [t |-> "string", s |-> toks]
Num(n) == [t |-> "number", n |-> n]
Bool(b) == [t |-> "boolean", b |-> b]

EmptyStr == Str(<< >>)

\* ToBoolean: what ||, ! and if see
Truthy(v) ==
    CASE v.t = "undefined" -> FALSE
      [] v.t = "null" -> FALSE
      [] v.t = "string" -> v.s # << >>
      [] v.t = "number" -> v.n # 0
      [] v.t = "boolean" -> v.b
      [] OTHER -> TRUE

\* a || b
OrElse(a, b) == IF Truthy(a) THEN a ELSE b

\* String.prototype.toLowerCase, token by token
toLowerCaseTok(tok) ==
    CASE tok = "Insufficient" -> "insufficient"
      [] tok = "INSUFFICIENT" -> "insufficient"
      [] tok = "Quota" -> "quota"
      [] tok = "QUOTA" -> "quota"
      [] tok = "Balance" -> "balance"
      [] tok = "Billing" -> "billing"
      [] tok = "BILLING" -> "billing"
      [] tok = "Limit" -> "limit"
      [] tok = "Exceeded" -> "exceeded"
      [] tok = "Rate" -> "rate"
      [] tok = "Connection" -> "connection"
      [] tok = "Error" -> "error"
      [] tok = "Cannot" -> "cannot"
      [] tok = "Invalid" -> "invalid"
      [] OTHER -> tok

toLowerCase(toks) == [i \in 1..Len(toks) |-> toLowerCaseTok(toks[i])]

\* String.prototype.includes: needle occurs as a contiguous run of hay
includes(hay, needle) ==
    \E i \in 0..(Len(hay) - Len(needle)) :
        SubSeq(hay, i + 1, i + Len(needle)) = needle

-----------------------------------------------------------------------------
(* The registry *)

\* constructor of services/AIService.js: groq alone, enabled by GROQ_API_KEY
ServicesRegistry(hasKey) ==
    << [key |-> "groq", client |-> hasKey, enabled |-> hasKey,
        priority |-> 1, available |-> TRUE] >>

\* constructor of the second copy: gemini and openai registered, disabled
DisabledRegistry(hasKey) ==
    << [key |-> "groq", client |-> hasKey, enabled |-> hasKey,
        priority |-> 1, available |-> TRUE],
       [key |-> "gemini", client |-> FALSE, enabled |-> FALSE,
        priority |-> 2, available |-> TRUE],
       [key |-> "openai", client |-> FALSE, enabled |-> FALSE,
        priority |-> 3, available |-> TRUE] >>

Registries ==
    {ServicesRegistry(k) : k \in BOOLEAN} \cup {DisabledRegistry(k) : k \in BOOLEAN}

Keys(provs) == {provs[i].key : i \in 1..Len(provs)}

\* this.providers[key], for a registered key
Entry(provs, key) ==
    provs[CHOOSE i \in 1..Len(provs) : provs[i].key = key]

\* Array.prototype.sort((a, b) => a.priority - b.priority): stable
RECURSIVE InsertByPriority(_, _)
InsertByPriority(e, sorted) ==
    IF sorted = << >> THEN <<e>>
    ELSE IF e.priority < Head(sorted).priority THEN <<e>> \o sorted
    ELSE <<Head(sorted)>> \o InsertByPriority(e, Tail(sorted))

RECURSIVE SortByPriority(_)
SortByPriority(entries) ==
    IF entries = << >> THEN << >>
    ELSE InsertByPriority(entries[Len(entries)],
                          SortByPriority(SubSeq(entries, 1, Len(entries) - 1)))

\* a filter that forgets the available flag
IsEnabled(config) == config.enabled

IsListed(config) == config.enabled /\ config.available

\* a listing of the enabled providers, in cooldown or not
ListEnabledByPriority(provs) ==
    LET kept == SelectSeq(provs, LAMBDA config : config.enabled)
        sorted == SortByPriority(kept)
    IN  [i \in 1..Len(sorted) |-> sorted[i].key]

\* a listing that filters and forgets to sort
ListUnsorted(provs) ==
    LET kept == SelectSeq(provs, IsListed)
    IN  [i \in 1..Len(kept) |-> kept[i].key]

\* a listing whose sort puts the later of two equal priorities first
ListTiesReversed(provs) ==
    LET kept == SelectSeq(provs, IsListed)
        turned == [i \in 1..Len(kept) |-> kept[Len(kept) + 1 - i]]
        sorted == SortByPriority(turned)
    IN  [i \in 1..Len(sorted) |-> sorted[i].key]

getAvailableProviders(provs) ==
    LET kept == SelectSeq(provs, IsListed)
        sorted == SortByPriority(kept)
    IN  [i \in 1..Len(sorted) |-> sorted[i].key]

\* a markProviderUnavailable that schedules the restore and forgets the flag
SetTimerOnly(reg, provider, duration) ==
    [providers |-> reg.providers,
     timers |-> Append(reg.timers, [key |-> provider, duration |-> duration])]

\* a markProviderUnavailable that switches the provider off as well
SetDisabled(reg, provider, duration) ==
    [providers |-> [i \in 1..Len(reg.providers) |->
                        IF reg.providers[i].key = provider
                        THEN [reg.providers[i] EXCEPT !.available = FALSE,
                                                      !.enabled = FALSE]
                        ELSE reg.providers[i]],
     timers |-> Append(reg.timers, [key |-> provider, duration |-> duration])]

\* the body of markProviderUnavailable after its guard: the flag, then setTimeout
SetUnavailable(reg, provider, duration) ==
    [providers |-> [i \in 1..Len(reg.providers) |->
                        IF reg.providers[i].key = provider
                        THEN [reg.providers[i] EXCEPT !.available = FALSE]
                        ELSE reg.providers[i]],
     timers |-> Append(reg.timers, [key |-> provider, duration |-> duration])]

\* names that this.providers, an object literal, inherits from Object.prototype
InheritedKeys == {"toString", "constructor"}

\* this.providers[provider] is truthy: an entry of the registry, or a property
\* found on the prototype
HasProperty(provs, provider) == provider \in Keys(provs) \cup InheritedKeys

\* markProviderUnavailable(provider, duration) on reg = [providers, timers];
\* for an inherited name the flag is written on the inherited object, which
\* is no entry, and the timer is set
markProviderUnavailable(reg, provider, duration) ==
    IF ~HasProperty(reg.providers, provider) THEN reg
    ELSE SetUnavailable(reg, provider, duration)

\* a callback that lets the cooldown go on
RestoreNothing(provs, provider) == provs

\* the setTimeout callback of markProviderUnavailable
Restore(provs, provider) ==
    [i \in 1..Len(provs) |->
        IF provs[i].key = provider
        THEN [provs[i] EXCEPT !.available = TRUE]
        ELSE provs[i]]

\* a snapshot that reports this.lastError[key] as it is
StatusAsStored(provs, errs) ==
    [i \in 1..Len(provs) |->
        [provider |-> provs[i].key,
         enabled |-> provs[i].enabled,
         available |-> provs[i].available,
         priority |-> provs[i].priority,
         lastError |-> IF provs[i].key \in DOMAIN errs
                       THEN errs[provs[i].key] ELSE Undefined]]

\* getProviderStatus(): Object.entries(this.providers).map(...)
getProviderStatus(provs, errs) ==
    [i \in 1..Len(provs) |->
        [provider |-> provs[i].key,
         enabled |-> provs[i].enabled,
         available |-> provs[i].available,
         priority |-> provs[i].priority,
         lastError |-> OrElse(IF provs[i].key \in DOMAIN errs
                              THEN errs[provs[i].key] ELSE Undefined,
                              Null)]]

-----------------------------------------------------------------------------
(* Failure classification *)

\* an error as thrown by the provider client or by the service itself
Err(message, status, code) ==
    [t |-> "Error", message |-> message, status |-> status, code |-> code]

errorMessage(error) ==
    IF error.message.t = "string" THEN Str(toLowerCase(error.message.s)) ELSE EmptyStr

errorCode(error) == OrElse(error.status, OrElse(error.code, EmptyStr))

\* _isBalanceError of services/AIService.js
_isBalanceError(error) ==
    \/ includes(errorMessage(error).s, <<"insufficient">>)
    \/ includes(errorMessage(error).s, <<"quota">>)
    \/ includes(errorMessage(error).s, <<"balance">>)
    \/ errorCode(error) = Num(429)
    \/ errorCode(error) = Num(402)

\* _isBalanceError of the second copy of the service
_isBalanceErrorCopy(error) ==
    \/ includes(errorMessage(error).s, <<"insufficient">>)
    \/ includes(errorMessage(error).s, <<"quota">>)
    \/ includes(errorMessage(error).s, <<"balance">>)
    \/ includes(errorMessage(error).s, <<"billing">>)
    \/ includes(errorMessage(error).s, <<"limit", " ", "exceeded">>)
    \/ errorCode(error) = Num(429)
    \/ errorCode(error) = Num(402)
    \/ errorCode(error) = Str(<<"insufficient", "_", "quota">>)

-----------------------------------------------------------------------------
(* JSON extraction and repair *)

\* the result of an evaluation that may throw
Returned(v) == [threw |-> FALSE, value |-> v]
Threw(e) == [threw |-> TRUE, value |-> e]

Obj(fields) == [t |-> "object", fields |-> fields]
Arr(items) == [t |-> "array", items |-> items]

\* parsed.name where parsed is not null or undefined
Get(v, name) ==
    IF v.t = "object" /\ name \in DOMAIN v.fields THEN v.fields[name] ELSE Undefined

TypeError(what) ==
    Err(Str(<<"Cannot", " ", "read", " ", "properties", " ", what>>), Undefined, Undefined)
SyntaxError == Err(Str(<<"Unexpected", " ", "token">>), Undefined, Undefined)

\* the JSON texts a token may hold, and the value each denotes
Payloads ==
    {"{situation:x}", "{situation:x,nextAction:Go}",
     "{nextAction:{step:Call PAO,timeline:within 24h}}",
     "{nextAction:{step:Call PAO}}", "{nextAction:{timeline:within 24h}}",
     "{nextAction:{}}", "{nextAction:{step:,timeline:}}", "null", "42"}

Denote(tok) ==
    CASE tok = "{situation:x}" ->
            Obj([f \in {"situation"} |-> Str(<<"x">>)])
      [] tok = "{situation:x,nextAction:Go}" ->
            Obj([situation |-> Str(<<"x">>), nextAction |-> Str(<<"Go">>)])
      [] tok = "{nextAction:{step:Call PAO,timeline:within 24h}}" ->
            Obj([f \in {"nextAction"} |->
                    Obj([step |-> Str(<<"Call PAO">>), timeline |-> Str(<<"within 24h">>)])])
      [] tok = "{nextAction:{step:Call PAO}}" ->
            Obj([f \in {"nextAction"} |-> Obj([g \in {"step"} |-> Str(<<"Call PAO">>)])])
      [] tok = "{nextAction:{timeline:within 24h}}" ->
            Obj([f \in {"nextAction"} |-> Obj([g \in {"timeline"} |-> Str(<<"within 24h">>)])])
      [] tok = "{nextAction:{}}" ->
            Obj([f \in {"nextAction"} |-> Obj(<< >>)])
      [] tok = "{nextAction:{step:,timeline:}}" ->
            Obj([f \in {"nextAction"} |-> Obj([step |-> EmptyStr, timeline |-> EmptyStr])])
      [] tok = "null" -> Null
      [] tok = "42" -> Num(42)

IsSpace(tok) == tok \in {" ", "\n"}
IsFence(tok) == tok \in {"<fence>", "<fence>json"}
OpensBrace(tok) == tok \in {"{", "{oops"} \/ (tok \in Payloads /\ Denote(tok).t = "object")
ClosesBrace(tok) == tok \in {"}", "oops}"} \/ (tok \in Payloads /\ Denote(tok).t = "object")

RECURSIVE TrimLeft(_)
TrimLeft(toks) ==
    IF toks # << >> /\ IsSpace(Head(toks)) THEN TrimLeft(Tail(toks)) ELSE toks

RECURSIVE TrimRight(_)
TrimRight(toks) ==
    IF toks # << >> /\ IsSpace(toks[Len(toks)])
    THEN TrimRight(SubSeq(toks, 1, Len(toks) - 1)) ELSE toks

\* String.prototype.trim
trim(toks) == TrimRight(TrimLeft(toks))

\* String(v), as a template string interpolates it
ToStringToks(v) ==
    CASE v.t = "string" -> v.s
      [] v.t = "undefined" -> <<"undefined">>
      [] v.t = "null" -> <<"null">>
      [] v.t = "number" -> <<"42">>
      [] OTHER -> <<"[object Object]">>

\* JSON.parse(text)
JSONparse(text) ==
    CASE text.t = "null" -> Returned(Null)
      [] text.t = "string" ->
            LET body == trim(text.s)
            IN  IF Len(body) = 1 /\ body[1] \in Payloads
                THEN Returned(Denote(body[1]))
                ELSE Threw(SyntaxError)
      [] OTHER -> Threw(SyntaxError)

\* the template ${parsed.nextAction.step} (Timeline: ${parsed.nextAction.timeline})
TimelineTemplate(na) ==
    Str(ToStringToks(Get(na, "step")) \o <<" (Timeline: ">>
        \o ToStringToks(Get(na, "timeline")) \o <<")">>)

SeekCounsel == Str(<<"Seek legal counsel immediately">>)

\* the value assigned to parsed.nextAction when it is an object
FlattenNextAction(na) ==
    OrElse(Get(na, "step"), OrElse(TimelineTemplate(na), SeekCounsel))

\* the normalisation of the nextAction field after a parse
NormalizeNextAction(parsed) ==
    IF parsed.t \in {"null", "undefined"} THEN Threw(TypeError("nextAction"))
    ELSE LET na == Get(parsed, "nextAction")
         IN  IF Truthy(na) /\ na.t \in {"object", "array"}
             THEN Returned(Obj([f \in DOMAIN parsed.fields |->
                                   IF f = "nextAction" THEN FlattenNextAction(na)
                                   ELSE parsed.fields[f]]))
             ELSE Returned(parsed)

\* JSON.parse followed by the normalisation, inside one try block
ParseAndNormalize(text) ==
    LET p == JSONparse(text)
    IN  IF p.threw THEN p ELSE NormalizeNextAction(p.value)

\* text.match(/<fence>json\s*([\s\S]*?)\s*<fence>/), <fence> the triple backtick:
\* [found, whole, group]
MatchJsonFence(toks) ==
    LET starts == {i \in 1..Len(toks) :
                      /\ toks[i] = "<fence>json"
                      /\ \E j \in (i + 1)..Len(toks) : IsFence(toks[j])}
    IN  IF starts = {} THEN [found |-> FALSE, whole |-> << >>, group |-> Undefined]
        ELSE LET i == CHOOSE a \in starts : \A b \in starts : a <= b
                 j == CHOOSE a \in (i + 1)..Len(toks) :
                        /\ IsFence(toks[a])
                        /\ \A b \in (i + 1)..Len(toks) : IsFence(toks[b]) => a <= b
             IN  [found |-> TRUE, whole |-> SubSeq(toks, i, j),
                  group |-> Str(trim(SubSeq(toks, i + 1, j - 1)))]

\* text.match(/\{[\s\S]*\}/): from the first opening to the last closing brace
MatchBraces(toks) ==
    LET opens == {i \in 1..Len(toks) : OpensBrace(toks[i])}
        closes == {i \in 1..Len(toks) : ClosesBrace(toks[i])}
    IN  IF opens = {} \/ closes = {}
        THEN [found |-> FALSE, whole |-> << >>, group |-> Undefined]
        ELSE LET a == CHOOSE x \in opens : \A y \in opens : x <= y
                 b == CHOOSE x \in closes : \A y \in closes : y <= x
             IN  IF a <= b
                 THEN [found |-> TRUE, whole |-> SubSeq(toks, a, b), group |-> Undefined]
                 ELSE [found |-> FALSE, whole |-> << >>, group |-> Undefined]

\* contentToParse.replace(/^<fence>json\s*|<fence>\s*$/g, "").trim()
CleanText(toks) ==
    LET front == IF toks # << >> /\ Head(toks) = "<fence>json"
                 THEN TrimLeft(Tail(toks)) ELSE toks
        back == TrimRight(front)
        cut == IF back # << >> /\ back[Len(back)] = "<fence>"
               THEN SubSeq(back, 1, Len(back) - 1)
               ELSE front
    IN  trim(cut)

\* the literal returned when nothing parses
FallbackAnalysis ==
    Obj([situation |-> Str(<<"Unable to analyze situation automatically">>),
         relevantLaws |-> Arr(<<Str(<<"Please consult with a legal professional">>)>>),
         recommendedSteps |->
            Arr(<<Str(<<"Contact PAO (Public Attorney's Office) at (02) 8426-2075">>),
                  Str(<<"Visit your local barangay hall">>),
                  Str(<<"Gather all relevant documents">>)>>),
         watchOutFor |->
            Arr(<<Str(<<"Ensure all claims are documented with evidence">>),
                  Str(<<"Be aware of prescription periods for filing cases">>)>>),
         contacts |-> Obj([pao |-> Str(<<"PAO: (02) 8426-2075">>),
                           barangay |-> Str(<<"Local Barangay Hall">>),
                           pnp |-> Str(<<"PNP Emergency: 911">>),
                           dswd |-> Str(<<"DSWD Hotline: 1343">>)]),
         nextAction |-> Str(<<"Seek immediate legal counsel from PAO">>)])

\* the catch branch of _extractJSON: the two regular expressions, then the literal
ExtractFromMatch(text) ==
    IF text.t # "string" THEN Threw(TypeError("match"))
    ELSE LET fenced == MatchJsonFence(text.s)
             jsonMatch == IF fenced.found THEN fenced ELSE MatchBraces(text.s)
         IN  IF ~jsonMatch.found THEN Returned(FallbackAnalysis)
             ELSE LET contentToParse == OrElse(jsonMatch.group, Str(jsonMatch.whole))
                      r == ParseAndNormalize(Str(CleanText(contentToParse.s)))
                  IN  IF r.threw THEN Returned(FallbackAnalysis) ELSE r

_extractJSON(text) ==
    LET direct == ParseAndNormalize(text)
    IN  IF direct.threw THEN ExtractFromMatch(text) ELSE direct

\* text.match(/<fence>\s*([\s\S]*?)\s*<fence>/) of the second copy: the first
\* fence that a later fence closes, whatever follows the backticks
MatchAnyFence(toks) ==
    LET starts == {i \in 1..Len(toks) :
                      /\ IsFence(toks[i])
                      /\ \E j \in (i + 1)..Len(toks) : IsFence(toks[j])}
    IN  IF starts = {} THEN [found |-> FALSE, whole |-> << >>, group |-> Undefined]
        ELSE LET i == CHOOSE a \in starts : \A b \in starts : a <= b
                 j == CHOOSE a \in (i + 1)..Len(toks) :
                        /\ IsFence(toks[a])
                        /\ \A b \in (i + 1)..Len(toks) : IsFence(toks[b]) => a <= b
                 tag == IF toks[i] = "<fence>json" THEN <<"json">> ELSE << >>
             IN  [found |-> TRUE,
                  whole |-> <<"<fence>">> \o tag \o SubSeq(toks, i + 1, j - 1)
                               \o <<"<fence>">>,
                  group |-> Str(trim(tag \o SubSeq(toks, i + 1, j - 1)))]

\* the literal the second copy returns when nothing parses
FallbackAnalysisCopy ==
    Obj([situation |-> Str(<<"Unable to analyze situation automatically">>),
         relevantLaws |-> Arr(<<Str(<<"Please consult with a legal professional">>)>>),
         recommendedSteps |->
            Arr(<<Str(<<"Contact PAO (Public Attorney's Office) at 929-9436">>),
                  Str(<<"Visit your local barangay hall">>),
                  Str(<<"Gather all relevant documents">>)>>),
         contacts |-> Obj([pao |-> Str(<<"PAO Hotline: 929-9436">>),
                           barangay |-> Str(<<"Local Barangay Hall">>),
                           dole |-> Str(<<"DOLE Hotline: 1349">>)]),
         nextAction |-> Str(<<"Seek immediate legal counsel from PAO">>)])

\* the catch branch of the second copy: three regular expressions, no
\* normalisation
ExtractFromMatchCopy(text) ==
    IF text.t # "string" THEN Threw(TypeError("match"))
    ELSE LET tagged == MatchJsonFence(text.s)
             fenced == IF tagged.found THEN tagged ELSE MatchAnyFence(text.s)
             jsonMatch == IF fenced.found THEN fenced ELSE MatchBraces(text.s)
         IN  IF ~jsonMatch.found THEN Returned(FallbackAnalysisCopy)
             ELSE LET contentToParse == OrElse(jsonMatch.group, Str(jsonMatch.whole))
                      r == JSONparse(Str(CleanText(contentToParse.s)))
                  IN  IF r.threw THEN Returned(FallbackAnalysisCopy) ELSE r

\* _extractJSON(text) of the second copy
_extractJSONCopy(text) ==
    LET direct == JSONparse(text)
    IN  IF direct.threw THEN ExtractFromMatchCopy(text) ELSE direct

-----------------------------------------------------------------------------
(* The generation loops *)

FinalSummary == "generateFinalSummary"
Analyze == "analyzeLegalSituation"
Response == "generateResponse"
Methods == {FinalSummary, Analyze, Response}
Structured == {FinalSummary, Analyze}

\* what the provider client may answer: message.content of a resolved call ...
StructuredContents ==
    {Str(<<"{situation:x,nextAction:Go}">>),
     Str(<<"Sorry", " ", "I", " ", "cannot">>),
     Null}
ChatContents == {Str(<<"Kumusta", " ", "po">>), EmptyStr, Null, Num(42)}

\* ... or the error of a rejected call
ConnectionError ==
    Err(Str(<<"Connection", " ", "error">>), Undefined, Str(<<"ECONNRESET">>))
RateLimitError ==
    Err(Str(<<"Rate", " ", "limit", " ", "reached">>), Num(429),
        Str(<<"rate_limit_exceeded">>))
ProviderErrors == {ConnectionError, RateLimitError}

Resolve(content) == [kind |-> "resolve", value |-> content]
Reject(error) == [kind |-> "reject", value |-> error]

\* throw new Error(message), the message with the JSON text it embeds
Raise(text, json) == [kind |-> "throw", text |-> text, json |-> json]
Return(value) == [kind |-> "return", value |-> value]
NoJson == [present |-> FALSE, map |-> << >>]

\* JSON.stringify(this.lastError): entries whose value is undefined are left out
JSONstringify(errors) ==
    [present |-> TRUE,
     map |-> [k \in {x \in DOMAIN errors : errors[x].t # "undefined"} |-> errors[k]]]

\* the branch taken when getAvailableProviders() is empty
NoProviders(method) ==
    CASE method = FinalSummary ->
            Raise("No AI providers available for summarization", NoJson)
      [] method = Analyze -> Raise("No AI providers available", NoJson)
      [] method = Response ->
            Return(Str(<<"Pasensya na, walang available na AI service. Please check your API keys.">>))

\* the statement after the for loop
Exhausted(method, errors) ==
    CASE method = FinalSummary ->
            Raise("Failed to generate summary with all providers. Last errors: ",
                  JSONstringify(errors))
      [] method = Analyze -> Raise("All AI providers failed", NoJson)
      [] method = Response ->
            Return(Str(<<"Pasensya na, lahat ng AI providers ay hindi available sa ngayon.">>))

\* the duration the catch block passes to markProviderUnavailable
\* a catch block that leaves the duration to the default of markProviderUnavailable
CooldownByDefault(error) == DefaultCooldown

CooldownFor(error) ==
    IF _isBalanceError(error) THEN QuotaCooldown ELSE TransientCooldown

\* a catch block that starts the cooldown and records nothing
CatchWithoutRecord(svc, provider, error) ==
    LET reg == markProviderUnavailable(
                   [providers |-> svc.providers, timers |-> svc.timers],
                   provider, CooldownFor(error))
    IN  [providers |-> reg.providers,
         timers |-> reg.timers,
         lastError |-> svc.lastError]

\* a catch block that records the message of a transient failure only
CatchRecordsTransientOnly(svc, provider, error) ==
    IF _isBalanceError(error)
    THEN CatchWithoutRecord(svc, provider, error)
    ELSE LET reg == markProviderUnavailable(
                        [providers |-> svc.providers, timers |-> svc.timers],
                        provider, CooldownFor(error))
         IN  [providers |-> reg.providers,
              timers |-> reg.timers,
              lastError |-> [k \in DOMAIN svc.lastError \cup {provider} |->
                                IF k = provider THEN error.message
                                ELSE svc.lastError[k]]]

\* the catch block of a loop, on svc = [providers, lastError, timers]
CatchFailure(svc, provider, error) ==
    LET reg == markProviderUnavailable(
                   [providers |-> svc.providers, timers |-> svc.timers],
                   provider, CooldownFor(error))
    IN  [providers |-> reg.providers,
         timers |-> reg.timers,
         lastError |-> [k \in DOMAIN svc.lastError \cup {provider} |->
                           IF k = provider THEN error.message ELSE svc.lastError[k]]]

\* a try block that returns what the provider sent without looking at it
OnResolveUnchecked(method, provider, content) ==
    IF method = Response THEN Returned(content) ELSE _extractJSON(content)

\* a try block whose validation looks at the type of the result alone
OnResolveTypeOnly(method, provider, content) ==
    CASE method = FinalSummary ->
            IF content.t # "string" THEN Threw(TypeError("length"))
            ELSE _extractJSON(content)
      [] method = Analyze -> _extractJSON(content)
      [] method = Response ->
            IF content.t # "string"
            THEN Threw(Err(Str(<<"Invalid", " ", "response", " ", "from", " ", provider>>),
                           Undefined, Undefined))
            ELSE Returned(content)

\* the try block of a loop after the provider call has resolved with content
OnResolve(method, provider, content) ==
    CASE method = FinalSummary ->
            IF content.t # "string" THEN Threw(TypeError("length"))
            ELSE _extractJSON(content)
      [] method = Analyze -> _extractJSON(content)
      [] method = Response ->
            IF ~Truthy(content) \/ content.t # "string"
            THEN Threw(Err(Str(<<"Invalid", " ", "response", " ", "from", " ", provider>>),
                           Undefined, Undefined))
            ELSE Returned(content)

NotConfigured(provider) ==
    Err(Str(<<"Provider", " ", "not", " ", "configured", ":", " ", provider>>),
        Undefined, Undefined)

\* how the call started for provider can settle
Settlements(method, provs, provider) ==
    IF provider # "groq" THEN {Reject(NotConfigured(provider))}
    ELSE IF ~Entry(provs, provider).client THEN {Reject(TypeError("chat"))}
    ELSE {Reject(e) : e \in ProviderErrors}
         \cup {Resolve(c) : c \in IF method = Response THEN ChatContents
                                  ELSE StructuredContents}

Idle ==
    [pc |-> "idle", method |-> "none", list |-> << >>, idx |-> 0,
     calls |-> << >>, outcome |-> Undefined]

Call(provider) ==
    [key |-> provider, state |-> "pending", reply |-> Undefined, error |-> Undefined]

\* the for loop from position idx up to its next await, or to its end
RECURSIVE Proceed(_, _, _, _, _)
Proceed(method, list, idx, calls, svc) ==
    IF idx > Len(list)
    THEN [svc |-> svc,
          inv |-> [pc |-> "done", method |-> method, list |-> list, idx |-> idx,
                   calls |-> calls, outcome |-> Exhausted(method, svc.lastError)]]
    ELSE IF method = FinalSummary /\ list[idx] # "groq"
    THEN Proceed(method, list, idx + 1, calls, svc)
    ELSE IF method = FinalSummary /\ ~Entry(svc.providers, list[idx]).client
    THEN Proceed(method, list, idx + 1,
                 Append(calls, [Call(list[idx]) EXCEPT !.state = "failed",
                                                       !.error = TypeError("chat")]),
                 CatchFailure(svc, list[idx], TypeError("chat")))
    ELSE [svc |-> svc,
          inv |-> [pc |-> "awaiting", method |-> method, list |-> list, idx |-> idx,
                   calls |-> Append(calls, Call(list[idx])), outcome |-> Undefined]]

\* a method that tells providers in cooldown from providers not configured
BeginTellsCooldown(method, svc) ==
    LET list == getAvailableProviders(svc.providers)
    IN  IF Len(list) = 0
        THEN [svc |-> svc,
              inv |-> [pc |-> "done", method |-> method, list |-> list, idx |-> 0,
                       calls |-> << >>,
                       outcome |-> IF \E n \in 1..Len(svc.providers) :
                                         svc.providers[n].enabled
                                   THEN Exhausted(method, svc.lastError)
                                   ELSE NoProviders(method)]]
        ELSE Proceed(method, list, 1, << >>, svc)

\* a generation method from its first statement to its first await, or its end
Begin(method, svc) ==
    LET list == getAvailableProviders(svc.providers)
    IN  IF Len(list) = 0
        THEN [svc |-> svc,
              inv |-> [pc |-> "done", method |-> method, list |-> list, idx |-> 0,
                       calls |-> << >>, outcome |-> NoProviders(method)]]
        ELSE Proceed(method, list, 1, << >>, svc)

\* a loop that calls the provider that has just failed once more
ResumeSameProvider(cur, svc, settlement) ==
    LET provider == cur.list[cur.idx]
        n == Len(cur.calls)
        r == IF settlement.kind = "resolve"
             THEN OnResolve(cur.method, provider, settlement.value)
             ELSE Threw(settlement.value)
    IN  IF ~r.threw
        THEN [svc |-> svc,
              inv |-> [cur EXCEPT !.pc = "done",
                                  !.calls[n].state = "returned",
                                  !.calls[n].reply = settlement,
                                  !.outcome = Return(r.value)]]
        ELSE Proceed(cur.method, cur.list, cur.idx,
                     [cur.calls EXCEPT ![n].state = "failed",
                                       ![n].reply = settlement,
                                       ![n].error = r.value],
                     CatchFailure(svc, provider, r.value))

\* a loop without its catch block: the error of the provider ends the method
ResumeRethrows(cur, svc, settlement) ==
    LET provider == cur.list[cur.idx]
        n == Len(cur.calls)
        r == IF settlement.kind = "resolve"
             THEN OnResolve(cur.method, provider, settlement.value)
             ELSE Threw(settlement.value)
    IN  IF ~r.threw
        THEN [svc |-> svc,
              inv |-> [cur EXCEPT !.pc = "done",
                                  !.calls[n].state = "returned",
                                  !.calls[n].reply = settlement,
                                  !.outcome = Return(r.value)]]
        ELSE [svc |-> svc,
              inv |-> [cur EXCEPT !.pc = "done",
                                  !.calls[n].state = "failed",
                                  !.calls[n].reply = settlement,
                                  !.calls[n].error = r.value,
                                  !.outcome = Raise(ToStringToks(r.value.message)[1],
                                                    NoJson)]]

\* a loop that reads the list of providers again after a failure and starts over
ResumeRelists(cur, svc, settlement) ==
    LET provider == cur.list[cur.idx]
        n == Len(cur.calls)
        r == IF settlement.kind = "resolve"
             THEN OnResolve(cur.method, provider, settlement.value)
             ELSE Threw(settlement.value)
        after == CatchFailure(svc, provider, r.value)
    IN  IF ~r.threw
        THEN [svc |-> svc,
              inv |-> [cur EXCEPT !.pc = "done",
                                  !.calls[n].state = "returned",
                                  !.calls[n].reply = settlement,
                                  !.outcome = Return(r.value)]]
        ELSE Proceed(cur.method, getAvailableProviders(after.providers), 1,
                     [cur.calls EXCEPT ![n].state = "failed",
                                       ![n].reply = settlement,
                                       ![n].error = r.value],
                     after)

\* a loop from the settlement of its pending call to its next await, or its end
Resume(cur, svc, settlement) ==
    LET provider == cur.list[cur.idx]
        n == Len(cur.calls)
        r == IF settlement.kind = "resolve"
             THEN OnResolve(cur.method, provider, settlement.value)
             ELSE Threw(settlement.value)
    IN  IF ~r.threw
        THEN [svc |-> svc,
              inv |-> [cur EXCEPT !.pc = "done",
                                  !.calls[n].state = "returned",
                                  !.calls[n].reply = settlement,
                                  !.outcome = Return(r.value)]]
        ELSE Proceed(cur.method, cur.list, cur.idx + 1,
                     [cur.calls EXCEPT ![n].state = "failed",
                                       ![n].reply = settlement,
                                       ![n].error = r.value],
                     CatchFailure(svc, provider, r.value))

-----------------------------------------------------------------------------
(* The state machine *)

Slots == 1..MaxInv

Svc == [providers |-> providers, lastError |-> lastError, timers |-> timers]

NoProbe == [fn |-> "none", arg |-> Undefined, done |-> FALSE, out |-> Undefined]

\* the timer of the /api/ai/chat handler, set beside the cooldown timers
ChatTimeout == "AI request timeout after 30s"

\* the pending timers that are cooldowns of providers
Cooldowns(ts) == SelectSeq(ts, LAMBDA t : t.key # ChatTimeout)

\* a request slot no request has used, and the server before any request
NoRequest ==
    [route |-> "none", pc |-> "none", responses |-> << >>,
     summary |-> Undefined, data |-> Undefined]
NoHttp == [req |-> [r \in Slots |-> NoRequest], summaries |-> << >>]

\* the module's singleton: new MultiAIService()
Init ==
    /\ providers \in Registries
    /\ lastError = << >>
    /\ timers = << >>
    /\ inv = [i \in Slots |-> Idle]
    /\ http = NoHttp
    /\ probe = NoProbe

\* a caller invokes a generation method
Start(i, method) ==
    /\ inv[i].pc = "idle"
    /\ \E next \in {Begin(method, Svc)} :
          /\ Len(Cooldowns(next.svc.timers)) <= MaxTimers
          /\ inv' = [inv EXCEPT ![i] = next.inv]
          /\ providers' = next.svc.providers
          /\ lastError' = next.svc.lastError
          /\ timers' = next.svc.timers
    /\ UNCHANGED <<probe, http>>

\* the pending provider call of an invocation settles
Settle(i) ==
    /\ inv[i].pc = "awaiting"
    /\ \E s \in Settlements(inv[i].method, providers, inv[i].list[inv[i].idx]) :
          \E next \in {Resume(inv[i], Svc, s)} :
              /\ Len(Cooldowns(next.svc.timers)) <= MaxTimers
              /\ inv' = [inv EXCEPT ![i] = next.inv]
              /\ providers' = next.svc.providers
              /\ lastError' = next.svc.lastError
              /\ timers' = next.svc.timers
    /\ UNCHANGED <<probe, http>>

\* the caller has taken the outcome of a finished invocation
Finish(i) ==
    /\ inv[i].pc = "done"
    /\ inv' = [inv EXCEPT ![i] = Idle]
    /\ UNCHANGED <<providers, lastError, timers, probe, http>>

\* Time is not counted: how long passes between two steps is left open. What
\* is kept of it is the order in which pending timers can expire. A timer set
\* earlier with a delay that is not longer expires no later, and runs first;
\* against an earlier timer with a longer delay either order can happen.
MayExpire(k) ==
    \A j \in 1..(k - 1) : timers[j].duration > timers[k].duration

\* a setTimeout callback of markProviderUnavailable runs
Fire(k) ==
    /\ k \in 1..Len(timers)
    /\ MayExpire(k)
    /\ providers' = IF timers[k].key \in Keys(providers)
                    THEN Restore(providers, timers[k].key)
                    ELSE providers
    /\ timers' = [j \in 1..(Len(timers) - 1) |->
                     IF j < k THEN timers[j] ELSE timers[j + 1]]
    /\ UNCHANGED <<lastError, inv, probe, http>>

Next ==
    \/ \E i \in Slots, m \in Methods : Start(i, m)
    \/ \E i \in Slots : Settle(i)
    \/ \E i \in Slots : Finish(i)
    \/ \E k \in 1..MaxTimers : Fire(k)

Spec == Init /\ [][Next]_vars

\* The event loop runs a timer that has expired.
TimersFire == \A k \in 1..MaxTimers : WF_vars(Fire(k))

\* A provider call does settle: the HTTP client answers, fails or times out.
\* This is WF_vars(Settle(i)) written out, with the state predicate that
\* ENABLED <<Settle(i)>>_vars amounts to: the invocation awaits its call.
CallsSettle ==
    \A i \in Slots :
        \/ []<>(inv[i].pc # "awaiting")
        \/ []<><<Settle(i)>>_vars

Fairness == TimersFire /\ CallsSettle

SpecLive == Spec /\ Fairness

-----------------------------------------------------------------------------
(* The two AI routes of server.js, on the service above *)

ChatRoute == "/api/ai/chat"
ProcessRoute == "/api/ai/process"

\* the delay of the timeout the chat handler races the service against
ChatTimeoutMs == 30000

\* res.status(status).json(body); res.json(body) answers with status 200
Respond(status, body) == [status |-> status, body |-> body]

InvalidMessageReply ==
    Str(<<"Sorry, I didn't receive your message properly. Please try again.">>)
ChatErrorReply == Str(<<"Pasensya na, may problema sa AI. Maaari mo bang ulitin?">>)
ProcessingFailed == Str(<<"Processing failed">>)

\* req.body.message of a chat request
ChatMessages == {Str(<<"Kumusta">>), Undefined, Num(42)}

SetRequest(r, request) == [http EXCEPT !.req[r] = request]

\* a request arrives at POST /api/ai/chat: the validation, then the timeout is
\* set and generateResponse runs up to its first await
ChatRequest(r, message) ==
    /\ http.req[r].route = "none"
    /\ inv[r].pc = "idle"
    /\ IF ~Truthy(message) \/ message.t # "string"
       THEN /\ http' = SetRequest(r, [NoRequest EXCEPT
                            !.route = ChatRoute,
                            !.pc = "closed",
                            !.responses = <<Respond(200, InvalidMessageReply)>>])
            /\ UNCHANGED <<providers, lastError, timers, inv>>
       ELSE \E next \in {Begin(Response,
                               [Svc EXCEPT !.timers =
                                   Append(timers, [key |-> ChatTimeout,
                                                   duration |-> ChatTimeoutMs,
                                                   req |-> r])])} :
                /\ inv' = [inv EXCEPT ![r] = next.inv]
                /\ providers' = next.svc.providers
                /\ lastError' = next.svc.lastError
                /\ timers' = next.svc.timers
                /\ http' = SetRequest(r, [NoRequest EXCEPT !.route = ChatRoute,
                                                           !.pc = "racing"])
    /\ UNCHANGED probe

\* a chat handler that answers whenever the service settles
OnAiSettledAnswers(request, outcome) ==
    [request EXCEPT
        !.pc = "closed",
        !.responses = Append(@, IF outcome.kind = "return"
                                THEN Respond(200, outcome.value)
                                ELSE Respond(200, ChatErrorReply))]

\* the promise of generateResponse settles: when the race is still open the
\* handler goes on and answers, otherwise nothing reads the outcome
OnAiSettled(request, outcome) ==
    IF request.pc = "racing"
    THEN [request EXCEPT
             !.pc = "closed",
             !.responses = Append(@, IF outcome.kind = "return"
                                     THEN Respond(200, outcome.value)
                                     ELSE Respond(200, ChatErrorReply))]
    ELSE request

\* generateResponse of a chat request has ended
ChatSettles(r) ==
    /\ http.req[r].route = ChatRoute
    /\ inv[r].pc = "done"
    /\ http' = SetRequest(r, OnAiSettled(http.req[r], inv[r].outcome))
    /\ inv' = [inv EXCEPT ![r] = Idle]
    /\ UNCHANGED <<providers, lastError, timers, probe>>

\* the timeout promise rejects: when the race is still open the catch block of
\* the handler answers, otherwise the rejection is nobody's
OnTimeout(request) ==
    IF request.pc = "racing"
    THEN [request EXCEPT !.pc = "closed",
                         !.responses = Append(@, Respond(200, ChatErrorReply))]
    ELSE request

\* a timeout that aborts the invocation it gave up on
TimeoutCancels(k) ==
    /\ k \in 1..Len(timers)
    /\ timers[k].key = ChatTimeout
    /\ MayExpire(k)
    /\ ~(inv[timers[k].req].pc = "done" /\ http.req[timers[k].req].pc = "racing")
    /\ http' = SetRequest(timers[k].req, OnTimeout(http.req[timers[k].req]))
    /\ inv' = [inv EXCEPT ![timers[k].req] = Idle]
    /\ timers' = [j \in 1..(Len(timers) - 1) |->
                     IF j < k THEN timers[j] ELSE timers[j + 1]]
    /\ UNCHANGED <<providers, lastError, probe>>

\* the timeout of a chat request expires; a service that has already settled
\* has its continuation run first
TimeoutFires(k) ==
    /\ k \in 1..Len(timers)
    /\ timers[k].key = ChatTimeout
    /\ MayExpire(k)
    /\ ~(inv[timers[k].req].pc = "done" /\ http.req[timers[k].req].pc = "racing")
    /\ http' = SetRequest(timers[k].req, OnTimeout(http.req[timers[k].req]))
    /\ timers' = [j \in 1..(Len(timers) - 1) |->
                     IF j < k THEN timers[j] ELSE timers[j + 1]]
    /\ UNCHANGED <<providers, lastError, inv, probe>>

\* the cooldown of a provider expires
CooldownExpires(k) ==
    /\ k \in 1..Len(timers)
    /\ timers[k].key # ChatTimeout
    /\ Fire(k)

\* a request arrives at POST /api/ai/process: analyzeLegalSituation runs up to
\* its first await
ProcessRequest(r) ==
    /\ http.req[r].route = "none"
    /\ inv[r].pc = "idle"
    /\ \E next \in {Begin(Analyze, Svc)} :
          /\ inv' = [inv EXCEPT ![r] = next.inv]
          /\ providers' = next.svc.providers
          /\ lastError' = next.svc.lastError
          /\ timers' = next.svc.timers
    /\ http' = SetRequest(r, [NoRequest EXCEPT !.route = ProcessRoute,
                                               !.pc = "awaiting"])
    /\ UNCHANGED probe

\* the handler after await analyzeLegalSituation: the catch block, or the
\* summary and the start of JSONService.append
OnAnalysis(r, request, outcome) ==
    IF outcome.kind = "throw"
    THEN [request EXCEPT !.pc = "closed",
                         !.responses = Append(@, Respond(500, ProcessingFailed))]
    ELSE [request EXCEPT !.pc = "reading",
                         !.summary = [sessionId |-> r, analysis |-> outcome.value]]

\* analyzeLegalSituation of a process request has ended
ProcessSettles(r) ==
    /\ http.req[r].route = ProcessRoute
    /\ http.req[r].pc = "awaiting"
    /\ inv[r].pc = "done"
    /\ http' = SetRequest(r, OnAnalysis(r, http.req[r], inv[r].outcome))
    /\ inv' = [inv EXCEPT ![r] = Idle]
    /\ UNCHANGED <<providers, lastError, timers, probe>>

\* JSONService.append: the file has been read and the item pushed
ReadDone(r) ==
    /\ http.req[r].pc = "reading"
    /\ http' = SetRequest(r, [http.req[r] EXCEPT
                                 !.pc = "writing",
                                 !.data = Append(http.summaries, http.req[r].summary)])
    /\ UNCHANGED <<providers, lastError, timers, inv, probe>>

\* JSONService.append: the file has been written, and the handler answers
WriteDone(r) ==
    /\ http.req[r].pc = "writing"
    /\ http' = [http EXCEPT
                   !.summaries = http.req[r].data,
                   !.req[r] = [@ EXCEPT
                       !.pc = "closed",
                       !.responses = Append(@, Respond(200, http.req[r].summary))]]
    /\ UNCHANGED <<providers, lastError, timers, inv, probe>>

NextRoutes ==
    \/ \E r \in Slots, message \in ChatMessages : ChatRequest(r, message)
    \/ \E r \in Slots : ProcessRequest(r)
    \/ \E r \in Slots : Settle(r)
    \/ \E r \in Slots : ChatSettles(r)
    \/ \E r \in Slots : ProcessSettles(r)
    \/ \E r \in Slots : ReadDone(r)
    \/ \E r \in Slots : WriteDone(r)
    \/ \E k \in 1..(MaxInv + MaxTimers) : TimeoutFires(k)
    \/ \E k \in 1..(MaxInv + MaxTimers) : CooldownExpires(k)

SpecRoutes == Init /\ [][NextRoutes]_vars

-----------------------------------------------------------------------------
(* The classifier on its own: every error of a bounded set is classified *)

ProbeMessages ==
    {Undefined,
     Str(<<"Connection", " ", "error">>),
     Str(<<"Insufficient", " ", "Balance">>),
     Str(<<"You", " ", "exceeded", " ", "your", " ", "QUOTA">>),
     Str(<<"Billing", " ", "hard", " ", "limit">>),
     Str(<<"Rate", " ", "Limit", " ", "Exceeded">>),
     Str(<<"limit", " ", "not", " ", "exceeded">>)}
ProbeStatuses == {Undefined, Num(429), Num(402), Num(500)}
ProbeCodes ==
    {Undefined, Num(429), Str(<<"insufficient", "_", "quota">>), Str(<<"ECONNRESET">>)}

InitClassify ==
    /\ providers = ServicesRegistry(TRUE)
    /\ lastError = << >>
    /\ timers = << >>
    /\ inv = [i \in Slots |-> Idle]
    /\ http = NoHttp
    /\ \E m \in ProbeMessages, st \in ProbeStatuses, c \in ProbeCodes :
          probe = [fn |-> "_isBalanceError", arg |-> Err(m, st, c),
                   done |-> FALSE, out |-> Undefined]

\* this._isBalanceError(error), services/AIService.js
Classify ==
    /\ ~probe.done
    /\ probe' = [probe EXCEPT !.done = TRUE,
                              !.out = Bool(_isBalanceError(probe.arg))]
    /\ UNCHANGED <<providers, lastError, timers, inv, http>>

\* this._isBalanceError(error), the second copy
ClassifyCopy ==
    /\ ~probe.done
    /\ probe' = [probe EXCEPT !.fn = "_isBalanceError (copy)",
                              !.done = TRUE,
                              !.out = Bool(_isBalanceErrorCopy(probe.arg))]
    /\ UNCHANGED <<providers, lastError, timers, inv, http>>

NextClassify == Classify \/ ClassifyCopy

SpecClassify == InitClassify /\ [][NextClassify]_vars

-----------------------------------------------------------------------------
(* _extractJSON, over the contents a provider can answer with *)

\* the longest text enumerated token by token
MaxText == 4

\* what the enumerated texts are made of: fences, white space, prose, braces
\* that belong to no JSON text, a JSON object and the JSON text null
Alphabet ==
    {"<fence>json", "<fence>", "\n", "Here", "{oops", "}", "{situation:x}", "null"}

\* the ways a provider wraps the JSON text it was asked for
Wrappings == {"bare", "tagged", "untagged", "prose", "proseTagged", "proseUntagged"}

Wrap(w, tok) ==
    CASE w = "bare" -> <<tok>>
      [] w = "tagged" -> <<"<fence>json", "\n", tok, "\n", "<fence>">>
      [] w = "untagged" -> <<"<fence>", "\n", tok, "\n", "<fence>">>
      [] w = "prose" -> <<"Here", " ", tok, "\n", "Here">>
      [] w = "proseTagged" ->
            <<"Here", "\n", "<fence>json", "\n", tok, "\n", "<fence>", "\n", "Here">>
      [] w = "proseUntagged" ->
            <<"Here", "\n", "<fence>", "\n", tok, "\n", "<fence>", "\n", "Here">>

\* response.choices[0].message.content: a text, or null
Contents ==
    {Null}
    \cup {Str(t) : t \in UNION {[1..n -> Alphabet] : n \in 0..MaxText}}
    \cup {Str(Wrap(w, tok)) : w \in Wrappings, tok \in Payloads}

InitExtract ==
    /\ providers = ServicesRegistry(TRUE)
    /\ lastError = << >>
    /\ timers = << >>
    /\ inv = [i \in Slots |-> Idle]
    /\ http = NoHttp
    /\ \E text \in Contents :
          probe = [fn |-> "_extractJSON", arg |-> text, done |-> FALSE, out |-> Undefined]

\* this._extractJSON(text), services/AIService.js
Extract ==
    /\ ~probe.done
    /\ probe' = [probe EXCEPT !.done = TRUE, !.out = _extractJSON(probe.arg)]
    /\ UNCHANGED <<providers, lastError, timers, inv, http>>

\* this._extractJSON(text), the second copy
ExtractCopy ==
    /\ ~probe.done
    /\ probe' = [probe EXCEPT !.fn = "_extractJSON (copy)",
                              !.done = TRUE,
                              !.out = _extractJSONCopy(probe.arg)]
    /\ UNCHANGED <<providers, lastError, timers, inv, http>>

NextExtract == Extract \/ ExtractCopy

SpecExtract == InitExtract /\ [][NextExtract]_vars

-----------------------------------------------------------------------------
(* The read-only methods, over registries of up to three providers *)

\* the provider keys of the two constructors, in registration order
RegisteredKeys == <<"groq", "gemini", "openai">>

\* the largest priority a registry entry is given
MaxPriority == 3

\* the registries new MultiAIService() could hold with the entries configured
\* otherwise: each key with a priority and its two flags
ConfiguredRegistries ==
    UNION {[1..n -> [priority : 1..MaxPriority,
                     enabled : BOOLEAN, available : BOOLEAN]] :
              n \in 1..Len(RegisteredKeys)}

Configure(shape) ==
    [i \in 1..Len(shape) |->
        [key |-> RegisteredKeys[i], client |-> shape[i].enabled,
         enabled |-> shape[i].enabled, priority |-> shape[i].priority,
         available |-> shape[i].available]]

\* the values this.lastError can hold for the keys of a registry
RecordedErrors(provs) ==
    UNION {[ks -> {e.message : e \in ProviderErrors}] : ks \in SUBSET Keys(provs)}

InitRegistry ==
    /\ \E shape \in ConfiguredRegistries : providers = Configure(shape)
    /\ lastError \in RecordedErrors(providers)
    /\ timers = << >>
    /\ inv = [i \in Slots |-> Idle]
    /\ http = NoHttp
    /\ probe = NoProbe

\* a caller reads this.getAvailableProviders()
ListAvailable ==
    /\ ~probe.done
    /\ probe' = [fn |-> "getAvailableProviders", arg |-> Undefined, done |-> TRUE,
                 out |-> getAvailableProviders(providers)]
    /\ UNCHANGED <<providers, lastError, timers, inv, http>>

\* a caller reads this.getProviderStatus()
ProviderStatus ==
    /\ ~probe.done
    /\ probe' = [fn |-> "getProviderStatus", arg |-> Undefined, done |-> TRUE,
                 out |-> getProviderStatus(providers, lastError)]
    /\ UNCHANGED <<providers, lastError, timers, inv, http>>

NextRegistry == ListAvailable \/ ProviderStatus

SpecRegistry == InitRegistry /\ [][NextRegistry]_vars

-----------------------------------------------------------------------------
(* markProviderUnavailable called from outside the loops, on a registry whose
   entries can be deleted *)

\* the keys markProviderUnavailable is given: registered, never registered,
\* and a name every object has
MarkKeys == {"groq", "gemini", "claude", "toString"}

\* the durations it is given: the default and the two of the loops
MarkDurations == {DefaultCooldown, QuotaCooldown, TransientCooldown}

\* aiService.markProviderUnavailable(provider, duration)
Mark(provider, duration) ==
    /\ Len(timers) < MaxTimers
    /\ \E reg \in {markProviderUnavailable(
                        [providers |-> providers, timers |-> timers],
                        provider, duration)} :
          /\ providers' = reg.providers
          /\ timers' = reg.timers
    /\ probe' = [fn |-> "markProviderUnavailable", arg |-> Str(<<provider>>),
                 done |-> TRUE, out |-> Undefined]
    /\ UNCHANGED <<lastError, inv, http>>

\* delete aiService.providers[provider]: the removal that the guard of the
\* timer callback provides for
Remove(provider) ==
    /\ provider \in Keys(providers)
    /\ providers' = SelectSeq(providers, LAMBDA config : config.key # provider)
    /\ UNCHANGED <<lastError, timers, inv, probe, http>>

NextMark ==
    \/ \E provider \in MarkKeys, duration \in MarkDurations : Mark(provider, duration)
    \/ \E provider \in MarkKeys : Remove(provider)
    \/ \E k \in 1..MaxTimers : Fire(k)

SpecMark == Init /\ [][NextMark]_vars

-----------------------------------------------------------------------------
(* Properties of the generation loops and of the registry *)

Range(seq) == {seq[n] : n \in 1..Len(seq)}

PositionIn(seq, x) == CHOOSE n \in 1..Len(seq) : seq[n] = x

LastCall(i) == inv[i].calls[Len(inv[i].calls)]

\* no entry of the registry is both enabled and available
NoneListed(provs) ==
    \A n \in 1..Len(provs) : ~(provs[n].enabled /\ provs[n].available)

\* this step is the start of an invocation in slot i
Starts(i) == inv[i].pc = "idle" /\ inv'[i].pc # "idle"

\* this step settles the pending call of slot i
Settles(i) == inv[i].pc = "awaiting" /\ inv'[i] # inv[i]

\* the call that slot i had pending, as this step leaves it
Settled(i) == inv'[i].calls[Len(inv[i].calls)]

RegistryUnchanged ==
    /\ providers' = providers
    /\ lastError' = lastError
    /\ timers' = timers

NoProvidersTexts ==
    {"No AI providers available for summarization", "No AI providers available"}
ExhaustedTexts ==
    {"Failed to generate summary with all providers. Last errors: ",
     "All AI providers failed"}
Apologies ==
    {Str(<<"Pasensya na, walang available na AI service. Please check your API keys.">>),
     Str(<<"Pasensya na, lahat ng AI providers ay hindi available sa ngayon.">>)}

C2_CooldownNotShortened ==
    \A k \in 1..Len(timers) :
        timers[k].key \in Keys(providers) =>
            /\ ~Entry(providers, timers[k].key).available
            /\ timers[k].key \notin Range(getAvailableProviders(providers))

\* C3: a second markProviderUnavailable for an unavailable key resets the
\* cooldown to the new duration: the provider is restored by the timer of the
\* last call for it, not sooner by the timer of an earlier one.
C3_LastWriteWins ==
    [][\A k \in 1..Len(timers) :
          ( /\ timers' = [j \in 1..(Len(timers) - 1) |->
                             IF j < k THEN timers[j] ELSE timers[j + 1]]
            /\ MayExpire(k)
            /\ timers[k].key \in Keys(providers)
            /\ ~Entry(providers, timers[k].key).available
            /\ Entry(providers', timers[k].key).available )
          => \A j \in (k + 1)..Len(timers) : timers[j].key # timers[k].key]_vars

\* C4: a provider call that fails in a generation loop puts the provider in
\* cooldown for 3,600,000 ms when the failure is classified as quota/balance
\* and for 60,000 ms otherwise, and the loops apply no other duration.
C4_CooldownByClass ==
    [][/\ \A i \in Slots :
            (Settles(i) /\ Settled(i).state = "failed") =>
                /\ timers' = Append(timers,
                      [key |-> Settled(i).key,
                       duration |-> IF _isBalanceError(Settled(i).error)
                                    THEN 3600000 ELSE 60000])
                /\ Settled(i).error.status = Num(429) => timers'[Len(timers')].duration = 3600000
                /\ Settled(i).error = ConnectionError => timers'[Len(timers')].duration = 60000
                /\ ~Entry(providers', Settled(i).key).available
       /\ \A k \in 1..Len(timers') : timers'[k].duration \in {3600000, 60000}]_vars

\* both classes of failure have happened and their cooldowns are pending
C4_Witness ==
    /\ \E i \in Slots :
          inv[i].calls # << >> /\ LastCall(i).state = "failed"
              /\ LastCall(i).error = RateLimitError
    /\ \E i \in Slots :
          inv[i].calls # << >> /\ LastCall(i).state = "failed"
              /\ LastCall(i).error = ConnectionError
    /\ \E k \in 1..Len(timers) : timers[k].duration = QuotaCooldown
    /\ \E k \in 1..Len(timers) : timers[k].duration = TransientCooldown

\* the classification that section 4.4 of the specification states
QuotaCodes == {Num(429), Num(402), Str(<<"insufficient", "_", "quota">>)}
QuotaWords ==
    {<<"insufficient">>, <<"quota">>, <<"balance">>, <<"billing">>,
     <<"limit", " ", "exceeded">>}
StatedBalanceError(error) ==
    \/ /\ error.message.t = "string"
       /\ \E w \in QuotaWords : includes(toLowerCase(error.message.s), w)
    \/ error.status \in QuotaCodes
    \/ error.code \in QuotaCodes

\* C5: _isBalanceError(error) is true exactly when the message contains, in any
\* case, insufficient, quota, balance, billing or limit exceeded, or the status
\* or the code of the error is 429, 402 or insufficient_quota.
C5_ClassifiesAsStated ==
    probe.done => probe.out = Bool(StatedBalanceError(probe.arg))

\* C6: a generation call that starts when no provider is enabled and available
\* ends at once with the no-providers outcome (an error from the structured
\* methods, the fallback string from generateResponse), calls no provider, and
\* changes no available flag, no timer and no lastError entry.
C6_NoProvidersAtStart ==
    [][\A i \in Slots :
          (Starts(i) /\ NoneListed(providers)) =>
              /\ inv'[i].pc = "done"
              /\ inv'[i].calls = << >>
              /\ RegistryUnchanged
              /\ inv'[i].method \in Structured =>
                    /\ inv'[i].outcome.kind = "throw"
                    /\ inv'[i].outcome.text \in NoProvidersTexts
              /\ inv'[i].method = Response =>
                    /\ inv'[i].outcome.kind = "return"
                    /\ inv'[i].outcome.value =
                          Str(<<"Pasensya na, walang available na AI service. Please check your API keys.">>)]_vars

\* a call was started while the only enabled provider was in cooldown, and ended
\* without a provider call
C6_Witness ==
    \E i \in Slots :
        /\ inv[i].pc = "done"
        /\ inv[i].calls = << >>
        /\ inv[i].outcome.kind = "return"
        /\ timers # << >>
        /\ NoneListed(providers)
        /\ \E n \in 1..Len(providers) : providers[n].enabled

\* C7: when every provider of the list has been tried and has failed, a
\* structured generation call ends with the all-providers-exhausted error, and
\* the error carries the map of the per-provider errors.
C7_ExhaustedCarriesErrors ==
    \A i \in Slots :
        ( /\ inv[i].pc = "done"
          /\ inv[i].method \in Structured
          /\ inv[i].calls # << >>
          /\ \A n \in 1..Len(inv[i].calls) : inv[i].calls[n].state = "failed"
          /\ \A q \in 1..Len(inv[i].list) :
                \E n \in 1..Len(inv[i].calls) : inv[i].calls[n].key = inv[i].list[q] )
        => /\ inv[i].outcome.kind = "throw"
           /\ inv[i].outcome.text \in ExhaustedTexts
           /\ inv[i].outcome.json.present
           /\ \A n \in 1..Len(inv[i].calls) :
                 inv[i].calls[n].error.message.t = "string" =>
                     inv[i].calls[n].key \in DOMAIN inv[i].outcome.json.map

\* C8: generateResponse never raises: whatever the registry and however the
\* provider calls settle, it returns a string, and when no provider call
\* succeeded that string is the apology.
C8_ResponseNeverRaises ==
    \A i \in Slots :
        (inv[i].method = Response /\ inv[i].pc = "done") =>
            /\ inv[i].outcome.kind = "return"
            /\ inv[i].outcome.value.t = "string"
            /\ (inv[i].calls = << >> \/ LastCall(i).state = "failed") =>
                  inv[i].outcome.value \in Apologies

\* generateResponse has ended after its provider answered with no usable text
C8_Witness ==
    \E i \in Slots :
        /\ inv[i].method = Response
        /\ inv[i].pc = "done"
        /\ inv[i].calls # << >>
        /\ LastCall(i).state = "failed"
        /\ LastCall(i).reply.kind = "resolve"

\* slot a holds an invocation whose only provider failed with a 429 status
FailedWith429(a) ==
    /\ inv[a].pc = "done"
    /\ inv[a].calls # << >>
    /\ LastCall(a).state = "failed"
    /\ LastCall(a).error.status = Num(429)

\* the cooldown of an hour that a quota failure started has not elapsed
InQuotaWindow(key) ==
    \E k \in 1..Len(timers) :
        timers[k].key = key /\ timers[k].duration = QuotaCooldown

C10_SuccessLeavesRegistry ==
    [][\A i \in Slots :
          ( /\ Settles(i)
            /\ inv[i].method \in Structured
            /\ Settled(i).reply.kind = "resolve" )
          => /\ inv'[i].pc = "done"
             /\ inv'[i].outcome.kind = "return"
             /\ ~_extractJSON(Settled(i).reply.value).threw
             /\ inv'[i].outcome.value = _extractJSON(Settled(i).reply.value).value
             /\ RegistryUnchanged]_vars

\* C11: getAvailableProviders() returns exactly the keys of the providers that
\* are enabled and available, each once, in ascending priority order, and
\* changes neither the providers nor lastError nor the timers.
C11_ListsEnabledAvailableByPriority ==
    [][(probe'.done /\ ~probe.done /\ probe'.fn = "getAvailableProviders") =>
          LET out == probe'.out
          IN  /\ Range(out) = {providers[n].key : n \in
                                  {m \in 1..Len(providers) :
                                      providers[m].enabled /\ providers[m].available}}
              /\ \A a \in 1..Len(out) : \A b \in (a + 1)..Len(out) :
                    /\ out[a] # out[b]
                    /\ Entry(providers, out[a]).priority
                          <= Entry(providers, out[b]).priority
              /\ UNCHANGED <<providers, lastError, timers>>]_vars

\* the list has been read from a registry whose registration order is not its
\* priority order, and one enabled provider was left out as unavailable
C11_Witness ==
    /\ probe.done
    /\ probe.fn = "getAvailableProviders"
    /\ Len(providers) = 3
    /\ Len(probe.out) = 2
    /\ probe.out[1] = providers[3].key
    /\ probe.out[2] = providers[1].key
    /\ providers[2].enabled
    /\ ~providers[2].available

\* C19: getProviderStatus() returns one entry per registered provider, in
\* registration order, with the provider's current enabled, available and
\* priority and with the message lastError holds for it, null when it holds
\* none; the call changes no state.
C19_StatusSnapshot ==
    [][(probe'.done /\ ~probe.done /\ probe'.fn = "getProviderStatus") =>
          LET out == probe'.out
          IN  /\ Len(out) = Len(providers)
              /\ \A n \in 1..Len(providers) :
                    /\ out[n].provider = providers[n].key
                    /\ out[n].enabled = providers[n].enabled
                    /\ out[n].available = providers[n].available
                    /\ out[n].priority = providers[n].priority
                    /\ providers[n].key \in DOMAIN lastError =>
                          out[n].lastError = lastError[providers[n].key]
                    /\ providers[n].key \notin DOMAIN lastError =>
                          out[n].lastError = Null
              /\ UNCHANGED <<providers, lastError, timers>>]_vars

\* the snapshot has been taken of three providers, one of which has failed and
\* is in cooldown while another never failed
C19_Witness ==
    /\ probe.done
    /\ probe.fn = "getProviderStatus"
    /\ Len(probe.out) = 3
    /\ \E n \in 1..3 :
          /\ probe.out[n].lastError.t = "string"
          /\ ~probe.out[n].available
    /\ \E n \in 1..3 : probe.out[n].lastError = Null

\* C12: an output-parsing failure never surfaces: whatever the provider
\* answered (valid JSON, the JSON of a non-object value, fenced or embedded
\* JSON, text that is no JSON, no content), _extractJSON returns a result and
\* does not throw.
C12_ParsingNeverThrows ==
    (probe.done /\ probe.fn = "_extractJSON") => ~probe.out.threw

ObjectPayloads == {tok \in Payloads : Denote(tok).t = "object"}

\* what the copy of _extractJSON that made the probe returns for a text
ExtractedBy(fn, text) ==
    IF fn = "_extractJSON" THEN _extractJSON(text) ELSE _extractJSONCopy(text)

\* the parse of one copy: the live one flattens nextAction, the second does not
ParsedBy(fn, text) ==
    IF fn = "_extractJSON" THEN ParseAndNormalize(text) ELSE JSONparse(text)

\* the parse of what a regular expression matched, when it matched
StageOf(fn, match) ==
    IF ~match.found THEN Threw(SyntaxError)
    ELSE ParsedBy(fn, Str(CleanText(OrElse(match.group, Str(match.whole)).s)))

\* the stages of one copy after the direct parse, in the order of its regular
\* expressions
StagesOf(fn, toks) ==
    IF fn = "_extractJSON"
    THEN <<StageOf(fn, MatchJsonFence(toks)), StageOf(fn, MatchBraces(toks))>>
    ELSE <<StageOf(fn, MatchJsonFence(toks)), StageOf(fn, MatchAnyFence(toks)),
           StageOf(fn, MatchBraces(toks))>>

\* the result of the first stage that parses, the fallback literal when none does
FirstSuccess(fn, text) ==
    LET stages == <<ParsedBy(fn, text)>> \o StagesOf(fn, text.s)
        good == {n \in 1..Len(stages) : ~stages[n].threw}
    IN  IF good = {}
        THEN Returned(IF fn = "_extractJSON"
                      THEN FallbackAnalysis ELSE FallbackAnalysisCopy)
        ELSE stages[CHOOSE n \in good : \A m \in good : n <= m]

\* a text that is a JSON object yields that object (its nextAction flattened
\* when it is an object); the same JSON text inside a fenced block, tagged
\* json or not, or with prose around it, yields the same result; a text that
\* holds no JSON yields the fixed fallback literal with its contact fields
WrappingsYieldPayload ==
    probe.done =>
        /\ \A tok \in ObjectPayloads :
              /\ probe.arg = Str(<<tok>>) =>
                    /\ ~probe.out.threw
                    /\ probe.out.value.t = "object"
                    /\ DOMAIN probe.out.value.fields = DOMAIN Denote(tok).fields
                    /\ \A f \in DOMAIN Denote(tok).fields \ {"nextAction"} :
                          probe.out.value.fields[f] = Denote(tok).fields[f]
                    /\ Get(Denote(tok), "nextAction").t # "object" =>
                          probe.out.value = Denote(tok)
              /\ \A w \in Wrappings :
                    probe.arg = Str(Wrap(w, tok)) =>
                        /\ ~probe.out.threw
                        /\ probe.out = ExtractedBy(probe.fn, Str(<<tok>>))
        /\ ( /\ probe.arg.t = "string"
             /\ \A n \in 1..Len(probe.arg.s) : probe.arg.s[n] \notin Payloads )
           => /\ probe.out =
                    Returned(IF probe.fn = "_extractJSON"
                             THEN FallbackAnalysis ELSE FallbackAnalysisCopy)
              /\ {"pao", "barangay"} \subseteq
                    DOMAIN Get(probe.out.value, "contacts").fields

\* C13: the stages of _extractJSON apply in order and the first success wins:
\* the result for a text is the parse of the text itself when that succeeds,
\* otherwise the parse of the first of the fenced block and the span of braces
\* that parses, and the fixed fallback literal only when none does; so a JSON
\* object, bare, fenced or within prose, yields that object, and a text that
\* holds no JSON yields the fallback literal.
C13_FirstSuccessWins ==
    /\ WrappingsYieldPayload
    /\ (probe.done /\ probe.arg.t = "string") =>
          probe.out = FirstSuccess(probe.fn, probe.arg)

\* the object that the JSON text tok gives as nextAction, undefined when it
\* gives none
NextActionOf(tok) ==
    LET na == Get(Denote(tok), "nextAction")
    IN  IF na.t = "object" THEN na ELSE Undefined

\* the live _extractJSON has been given the JSON text tok, bare or wrapped
ExtractedFrom(tok) ==
    /\ probe.done
    /\ probe.fn = "_extractJSON"
    /\ \E w \in Wrappings : probe.arg = Str(Wrap(w, tok))

\* C14: a nextAction object with a non-empty step is replaced by the text
\* "{step} (Timeline: {timeline})" when it has a timeline and by the step alone
\* when it has none, on the direct-parse path and on the extracted-text path.
C14_StepAndTimeline ==
    \A tok \in ObjectPayloads :
        LET na == NextActionOf(tok)
        IN  (ExtractedFrom(tok) /\ na.t = "object" /\ Truthy(Get(na, "step"))) =>
                /\ ~probe.out.threw
                /\ Get(probe.out.value, "nextAction") =
                      IF Truthy(Get(na, "timeline"))
                      THEN Str(Get(na, "step").s \o <<" (Timeline: ">>
                               \o Get(na, "timeline").s \o <<")">>)
                      ELSE Get(na, "step")

\* C15: a nextAction object whose step and timeline are both absent or empty
\* is replaced by the literal "Seek legal counsel immediately", and the text
\* of an absent field, such as undefined, never appears in the result.
C15_LiteralWhenBothAbsent ==
    \A tok \in ObjectPayloads :
        LET na == NextActionOf(tok)
        IN  ( /\ ExtractedFrom(tok)
              /\ na.t = "object"
              /\ ~Truthy(Get(na, "step"))
              /\ ~Truthy(Get(na, "timeline")) ) =>
                /\ ~probe.out.threw
                /\ Get(probe.out.value, "nextAction") = SeekCounsel
                /\ "undefined" \notin Range(Get(probe.out.value, "nextAction").s)

\* this step is the failure of the provider call of slot i: the catch block of
\* its loop has run
Fails(i) == Settles(i) /\ Settled(i).state = "failed"

\* C16: lastError holds for each provider the message of its most recent
\* failure: a failure overwrites the entry of its provider with its message
\* and leaves the other entries, and no other step (a success, the start or
\* the end of an invocation, the expiry of a cooldown) changes the map.
C16_LastErrorIsLatestFailure ==
    [][/\ \A i \in Slots :
            Fails(i) =>
                /\ DOMAIN lastError' = DOMAIN lastError \cup {Settled(i).key}
                /\ lastError'[Settled(i).key] = Settled(i).error.message
                /\ \A k \in DOMAIN lastError \ {Settled(i).key} :
                      lastError'[k] = lastError[k]
       /\ (\A i \in Slots : ~Fails(i)) => lastError' = lastError]_vars

\* the entry of a provider has been overwritten by a later failure with another
\* message, and is still there beside a call of the provider that succeeded
C16_Witness ==
    \E a \in Slots, b \in Slots :
        /\ inv[a].calls # << >>
        /\ LastCall(a).state = "failed"
        /\ LastCall(a).key \in DOMAIN lastError
        /\ lastError[LastCall(a).key] # LastCall(a).error.message
        /\ lastError[LastCall(a).key].t = "string"
        /\ inv[b].calls # << >>
        /\ LastCall(b).state = "returned"
        /\ LastCall(b).key = LastCall(a).key

\* C20: under every interleaving of invocations and cooldown timers, a
\* provider call is started only on a provider that is enabled and available
\* at the moment the call starts.
C20_CallsOnlyAvailable ==
    [][\A i \in Slots :
          ( /\ Len(inv'[i].calls) > Len(inv[i].calls)
            /\ inv'[i].calls[Len(inv'[i].calls)].state = "pending" )
          => LET key == inv'[i].calls[Len(inv'[i].calls)].key
             IN  /\ key \in Keys(providers')
                 /\ Entry(providers', key).enabled
                 /\ Entry(providers', key).available]_vars

\* a call of the provider is in flight beside an invocation that was started
\* while the provider was in cooldown and called nothing
C20_Witness ==
    \E a \in Slots, b \in Slots :
        /\ inv[a].pc = "awaiting"
        /\ LastCall(a).state = "pending"
        /\ Entry(providers, LastCall(a).key).enabled
        /\ inv[b].pc = "done"
        /\ inv[b].calls = << >>
        /\ LastCall(a).key \in DOMAIN lastError

\* this step closes the request of slot r
Closes(r) == http.req[r].pc # "closed" /\ http'.req[r].pc = "closed"

\* C17: when the 30 s timeout of a chat request fires before generateResponse
\* has settled, the request is answered exactly once, with the fallback
\* reply; the call in flight is not cancelled; and when it later completes or
\* fails nothing more is sent: a closed request keeps its one response.
C17_TimeoutAnswersOnce ==
    [][\A r \in Slots :
          /\ ( /\ http.req[r].route = ChatRoute
               /\ Closes(r)
               /\ inv[r].pc = "awaiting" )
             => /\ http'.req[r].responses = <<Respond(200, ChatErrorReply)>>
                /\ inv'[r] = inv[r]
                /\ inv'[r].calls[Len(inv'[r].calls)].state = "pending"
          /\ http.req[r].pc = "closed" =>
                /\ http'.req[r] = http.req[r]
                /\ Len(http.req[r].responses) = 1
          /\ Len(http'.req[r].responses) <= 1]_vars

\* the only request made was answered by the timeout, and the provider call
\* it had in flight has failed since and has been dropped
C17_Witness ==
    \E r \in Slots :
        /\ http.req[r].route = ChatRoute
        /\ http.req[r].responses = <<Respond(200, ChatErrorReply)>>
        /\ inv[r].pc = "idle"
        /\ lastError # << >>
        /\ \A q \in Slots \ {r} : http.req[q].route = "none"

\* C18: when analyzeLegalSituation raises, POST /api/ai/process answers with
\* status 500 and the summaries file is left as it was; when it returns a
\* result, the request is answered with the summary and the file is what it
\* was with that one summary appended.
C18_ProcessAppendsOne ==
    [][\A r \in Slots :
          (http.req[r].route = ProcessRoute /\ Closes(r)) =>
              /\ http.req[r].pc = "awaiting" =>
                    /\ inv[r].outcome.kind = "throw"
                    /\ http'.req[r].responses = <<Respond(500, ProcessingFailed)>>
                    /\ http'.summaries = http.summaries
              /\ http.req[r].pc # "awaiting" =>
                    /\ http'.req[r].responses =
                          <<Respond(200, http.req[r].summary)>>
                    /\ http'.summaries =
                          Append(http.summaries, http.req[r].summary)]_vars

\* C21: a failure of a provider never interrupts the loop: the step in which a
\* provider call fails (whatever its class) records the message in lastError,
\* puts the provider in cooldown and moves the invocation on, to a call of the
\* next provider of its list or, past the last one, to the exhaustion outcome;
\* no invocation ever ends with the error of a provider as its outcome.
C21_FailureNeverInterrupts ==
    [][\A i \in Slots :
          /\ Fails(i) =>
                /\ Settled(i).key \in DOMAIN lastError'
                /\ lastError'[Settled(i).key] = Settled(i).error.message
                /\ ~Entry(providers', Settled(i).key).available
                /\ Len(timers') = Len(timers) + 1
                /\ timers'[Len(timers')].key = Settled(i).key
                /\ inv'[i].idx > inv[i].idx
                /\ \/ /\ inv'[i].pc = "awaiting"
                      /\ inv'[i].idx <= Len(inv[i].list)
                      /\ inv'[i].calls[Len(inv'[i].calls)] = Call(inv[i].list[inv'[i].idx])
                   \/ /\ inv'[i].pc = "done"
                      /\ inv'[i].idx = Len(inv[i].list) + 1
                      /\ inv'[i].outcome = Exhausted(inv[i].method, lastError')
          /\ inv'[i].pc = "done" =>
                \/ inv'[i].outcome.kind = "return"
                \/ inv'[i].outcome.text \in NoProvidersTexts \cup ExhaustedTexts]_vars

\* each method has run its loop past a failure of either class to its end
C21_Witness ==
    \E a \in Slots, b \in Slots :
        /\ inv[a].pc = "done" /\ inv[a].method \in Structured
        /\ inv[a].calls # << >> /\ LastCall(a).state = "failed"
        /\ LastCall(a).error = RateLimitError
        /\ inv[a].outcome.kind = "throw"
        /\ inv[b].pc = "done" /\ inv[b].method = Response
        /\ inv[b].calls # << >> /\ LastCall(b).state = "failed"
        /\ LastCall(b).error = ConnectionError
        /\ inv[b].outcome.kind = "return"

\* C22: generateResponse accepts the result of a provider only when it is a
\* non-empty string, and then returns it and leaves the registry alone; an
\* empty, null or non-string result is a failure of the provider: lastError
\* holds the invalid-response message, the provider is in cooldown for 60,000
\* ms and the loop has moved on. So every value it returns is a non-empty string.
C22_OnlyNonEmptyStrings ==
    [][\A i \in Slots :
          /\ ( /\ Settles(i)
               /\ inv[i].method = Response
               /\ Settled(i).reply.kind = "resolve" )
             => LET result == Settled(i).reply.value
                IN  IF result.t = "string" /\ result.s # << >>
                    THEN /\ Settled(i).state = "returned"
                         /\ inv'[i].outcome = Return(result)
                         /\ RegistryUnchanged
                    ELSE /\ Settled(i).state = "failed"
                         /\ Settled(i).key \in DOMAIN lastError'
                         /\ lastError'[Settled(i).key] =
                               Str(<<"Invalid", " ", "response", " ", "from", " ",
                                     Settled(i).key>>)
                         /\ timers' = Append(timers, [key |-> Settled(i).key,
                                                      duration |-> 60000])
                         /\ ~Entry(providers', Settled(i).key).available
                         /\ inv'[i].idx = inv[i].idx + 1
          /\ (inv'[i].method = Response /\ inv'[i].pc = "done") =>
                /\ inv'[i].outcome.kind = "return"
                /\ inv'[i].outcome.value.t = "string"
                /\ inv'[i].outcome.value.s # << >>]_vars

\* the provider has answered generateResponse with the empty string, with no
\* content and with a number, and each time the answer was refused
C22_Witness ==
    \E a \in Slots, b \in Slots :
        /\ a # b
        /\ inv[a].method = Response /\ inv[a].pc = "done"
        /\ inv[a].calls # << >>
        /\ LastCall(a).reply = Resolve(EmptyStr)
        /\ LastCall(a).state = "failed"
        /\ inv[a].outcome.value \in Apologies
        /\ inv[b].method = Response /\ inv[b].pc = "done"
        /\ inv[b].calls # << >>
        /\ LastCall(b).reply = Resolve(Num(42))
        /\ LastCall(b).state = "failed"
        /\ \E k \in 1..Len(timers) : timers[k].duration = TransientCooldown

\* the same error with the status that puts it in the other class
OtherClass(error) ==
    IF _isBalanceError(error) THEN [error EXCEPT !.status = Num(500)]
    ELSE [error EXCEPT !.status = Num(429)]

\* the two sequences of timers are the same but for the duration of the last
SameButLastDuration(ts, us) ==
    /\ Len(ts) = Len(us)
    /\ ts # << >>
    /\ \A k \in 1..(Len(ts) - 1) : ts[k] = us[k]
    /\ ts[Len(ts)].key = us[Len(us)].key

\* C23: the class of a failure decides the duration of the cooldown and
\* nothing else: when a provider call is rejected, the same rejection in the
\* other class (same message, a status of the other class), from the same
\* state, gives the same lastError, the same providers with the same available
\* flags, the same position of the loop and the same outcome of the
\* invocation; the timers differ in the duration of the one just set.
C23_ClassDecidesDurationOnly ==
    [][\A i \in Slots :
          ( /\ Fails(i)
            /\ Settled(i).reply.kind = "reject"
            /\ _isBalanceError(OtherClass(Settled(i).error))
                  # _isBalanceError(Settled(i).error) )
          => LET other == Resume(inv[i], Svc, Reject(OtherClass(Settled(i).error)))
             IN  /\ other.svc.lastError = lastError'
                 /\ other.svc.providers = providers'
                 /\ SameButLastDuration(other.svc.timers, timers')
                 /\ other.svc.timers[Len(timers')].duration
                       # timers'[Len(timers')].duration
                 /\ {other.svc.timers[Len(timers')].duration,
                     timers'[Len(timers')].duration} = {3600000, 60000}
                 /\ other.inv.pc = inv'[i].pc
                 /\ other.inv.idx = inv'[i].idx
                 /\ other.inv.list = inv'[i].list
                 /\ other.inv.outcome = inv'[i].outcome
                 /\ Len(other.inv.calls) = Len(inv'[i].calls)]_vars

\* a quota failure and a transient failure have both ended their invocations,
\* and the cooldown of each class is pending
C23_Witness ==
    \E a \in Slots, b \in Slots :
        /\ inv[a].pc = "done" /\ inv[b].pc = "done"
        /\ inv[a].calls # << >> /\ inv[b].calls # << >>
        /\ LastCall(a).reply = Reject(RateLimitError)
        /\ LastCall(b).reply = Reject(ConnectionError)
        /\ inv[a].method = inv[b].method
        /\ Len(timers) = 2
        /\ timers[1].duration # timers[2].duration

\* the registry of a server started without any API key
WithoutCredentials(provs) ==
    [n \in 1..Len(provs) |-> [provs[n] EXCEPT !.enabled = FALSE, !.client = FALSE]]

\* C24: a generation call started when no provider is enabled and one started
\* when every enabled provider is in cooldown end the same way: on the
\* no-providers branch, with the outcome the method has on a registry without
\* any enabled provider (the same error for the structured methods, the same
\* apology for generateResponse), which says nothing of the cooldowns.
C24_SameOutcomeForBoth ==
    [][\A i \in Slots :
          (Starts(i) /\ NoneListed(providers)) =>
              /\ inv'[i].pc = "done"
              /\ inv'[i].outcome = NoProviders(inv'[i].method)
              /\ inv'[i] = Begin(inv'[i].method,
                                 [Svc EXCEPT !.providers =
                                     WithoutCredentials(providers)]).inv
              /\ inv'[i].outcome.kind = "throw" => ~inv'[i].outcome.json.present]_vars

\* a structured call started during the cooldown of the enabled provider has
\* ended with the no-providers error, after a call that failed
C24_Witness ==
    \E a \in Slots, b \in Slots :
        /\ inv[a].pc = "done" /\ inv[a].calls # << >>
        /\ LastCall(a).state = "failed"
        /\ inv[b].pc = "done" /\ inv[b].calls = << >>
        /\ inv[b].method \in Structured
        /\ inv[b].outcome.text \in NoProvidersTexts
        /\ \E n \in 1..Len(providers) : providers[n].enabled /\ ~providers[n].available

\* C25: enabled, client and priority are fixed at construction: no step (a
\* failure, a cooldown, a restoration, a start or an end of an invocation)
\* changes them or the set of entries; an enabled provider has a client, in
\* the first state and in every later one, so the provider of a call in
\* flight always has its client.
C25_EnabledIsStatic ==
    [][/\ Len(providers') = Len(providers)
       /\ \A n \in 1..Len(providers) :
             /\ providers'[n].key = providers[n].key
             /\ providers'[n].enabled = providers[n].enabled
             /\ providers'[n].client = providers[n].client
             /\ providers'[n].priority = providers[n].priority
             /\ providers[n].enabled => providers[n].client
             /\ providers'[n].enabled => providers'[n].client
       /\ \A i \in Slots :
             inv'[i].pc = "awaiting" =>
                 /\ Entry(providers', LastCall(i)'.key).enabled
                 /\ Entry(providers', LastCall(i)'.key).client]_vars

\* the provider has failed, has been in cooldown and has been restored, and a
\* new call of it is in flight
C25_Witness ==
    \E i \in Slots :
        /\ inv[i].pc = "awaiting"
        /\ LastCall(i).key \in DOMAIN lastError
        /\ Entry(providers, LastCall(i).key).available
        /\ timers = << >>
        /\ \E n \in 1..Len(providers) : ~providers[n].enabled

\* C26: providers of equal priority are listed in registration order: of two
\* enabled, available providers with the same priority, the one registered
\* first comes first in getAvailableProviders().
C26_TiesInRegistrationOrder ==
    [][(probe'.done /\ ~probe.done /\ probe'.fn = "getAvailableProviders") =>
          \A a \in 1..Len(providers) : \A b \in (a + 1)..Len(providers) :
              ( /\ IsListed(providers[a])
                /\ IsListed(providers[b])
                /\ providers[a].priority = providers[b].priority )
              => /\ providers[a].key \in Range(probe'.out)
                 /\ providers[b].key \in Range(probe'.out)
                 /\ PositionIn(probe'.out, providers[a].key)
                       < PositionIn(probe'.out, providers[b].key)]_vars

\* two providers of one priority have been listed in registration order,
\* after a provider registered later with a smaller priority
C26_Witness ==
    /\ probe.done
    /\ probe.fn = "getAvailableProviders"
    /\ Len(providers) = 3
    /\ providers[1].priority = providers[2].priority
    /\ providers[3].priority < providers[1].priority
    /\ probe.out = <<providers[3].key, providers[1].key, providers[2].key>>

\* this step runs the callback of the pending timer k
Fires(k) ==
    /\ k \in 1..Len(timers)
    /\ timers' = [j \in 1..(Len(timers) - 1) |->
                     IF j < k THEN timers[j] ELSE timers[j + 1]]

\* a timer that fires after its entry has been removed changes nothing: the
\* entry is not created again, the other entries keep their flags
FiredForRemovedChangesNothing ==
    [][\A k \in 1..Len(timers) :
          (Fires(k) /\ timers[k].key \notin Keys(providers)) =>
              providers' = providers /\ lastError' = lastError]_vars

\* C27: markProviderUnavailable on a key that is not in the registry changes
\* nothing and schedules no timer: a step that sets a timer sets it for a key
\* of the registry; and a restoration timer that fires after its entry has
\* been removed changes nothing.
C27_UnknownKeyChangesNothing ==
    [][/\ Len(timers') > Len(timers) =>
             timers'[Len(timers')].key \in Keys(providers)
       /\ \A k \in 1..Len(timers) :
             (Fires(k) /\ timers[k].key \notin Keys(providers)) =>
                 providers' = providers /\ lastError' = lastError]_vars

\* a restoration timer of the provider is pending
RestorePending(key) == \E k \in 1..Len(timers) : timers[k].key = key

InCooldown(key) == key \in Keys(providers) /\ ~Entry(providers, key).available
IsAvailable(key) == key \in Keys(providers) /\ Entry(providers, key).available

\* C28: cooldowns always end: a provider that is unavailable has a restoration
\* timer pending, in every reachable state; so, timers firing when they
\* expire, a provider that is unavailable is available again later, and once
\* no provider call fails any more every provider ends up available for good.
C28_CooldownsEnd ==
    /\ [](\A n \in 1..Len(providers) :
             ~providers[n].available => RestorePending(providers[n].key))
    /\ \A key \in Range(RegisteredKeys) :
          InCooldown(key) ~> IsAvailable(key)
    /\ (<>[][\A i \in Slots : ~Fails(i)]_vars) =>
          <>[](\A n \in 1..Len(providers) : providers[n].available)

\* the provider has been in cooldown after a failure and is available again,
\* with no timer left
C28_Witness ==
    /\ timers = << >>
    /\ lastError # << >>
    /\ \A i \in Slots : inv[i].pc = "idle"
    /\ \E n \in 1..Len(providers) : providers[n].enabled /\ providers[n].available

\* C29: an invocation reads the list of providers once, at its start, and
\* keeps it; it calls the providers of that list only, each at most once, so
\* it makes no more calls than there are registered providers; each settlement
\* of a call takes the loop one position further or ends it, and, provider
\* calls settling, every invocation ends.
C29_InvocationsTerminate ==
    /\ [][\A i \in Slots :
             /\ (inv[i].pc # "idle" /\ inv'[i].pc # "idle") =>
                    inv'[i].list = inv[i].list
             /\ Settles(i) => (inv'[i].pc = "done" \/ inv'[i].idx > inv[i].idx)
             /\ Starts(i) => inv'[i].list = getAvailableProviders(providers)
             /\ Len(inv'[i].calls) <= Len(inv'[i].list)
             /\ Len(inv'[i].list) <= Len(providers')
             /\ \A n \in 1..Len(inv'[i].calls) :
                    /\ inv'[i].calls[n].key \in Range(inv'[i].list)
                    /\ \A m \in (n + 1)..Len(inv'[i].calls) :
                          inv'[i].calls[n].key # inv'[i].calls[m].key]_vars
    /\ \A i \in Slots : (inv[i].pc = "awaiting") ~> (inv[i].pc = "done")

\* an invocation whose provider failed has ended, and its provider has been
\* restored since; the invocation has not called it again
C29_Witness ==
    \E i \in Slots :
        /\ inv[i].pc = "done"
        /\ Len(inv[i].calls) = 1
        /\ LastCall(i).state = "failed"
        /\ Entry(providers, LastCall(i).key).available
        /\ getAvailableProviders(providers) = inv[i].list

\* C30: a provider failure is applied to the shared registry whether or not a
\* caller still waits: the timeout of a chat request leaves the call in
\* flight; when that call fails after the request was answered, lastError
\* takes its message and the provider goes in cooldown, out of the list,
\* while the answered request stays as it is; a chat request that arrives
\* during that cooldown finds no provider and calls none.
C30_FailureAppliedAfterTimeout ==
    [][\A r \in Slots :
          /\ ( /\ http.req[r].route = ChatRoute
               /\ Closes(r)
               /\ inv[r].pc = "awaiting" )
             => inv'[r] = inv[r]
          /\ ( /\ http.req[r].route = ChatRoute
               /\ http.req[r].pc = "closed"
               /\ Fails(r) )
             => /\ Settled(r).key \in DOMAIN lastError'
                /\ lastError'[Settled(r).key] = Settled(r).error.message
                /\ ~Entry(providers', Settled(r).key).available
                /\ Settled(r).key \notin Range(getAvailableProviders(providers'))
                /\ Len(Cooldowns(timers')) = Len(Cooldowns(timers)) + 1
                /\ http' = http
          /\ ( /\ http.req[r].route = "none"
               /\ http'.req[r].pc = "racing"
               /\ \E n \in 1..Len(providers) : providers[n].enabled
               /\ NoneListed(providers) )
             => /\ inv'[r].pc = "done"
                /\ inv'[r].calls = << >>
                /\ inv'[r].outcome = NoProviders(Response)]_vars

\* a request was answered by its timeout and its provider call failed after
\* that; the request that came next, during the cooldown, was answered that
\* no AI service is available
C30_Witness ==
    \E r \in Slots, q \in Slots :
        /\ r # q
        /\ http.req[r].route = ChatRoute
        /\ http.req[r].responses = <<Respond(200, ChatErrorReply)>>
        /\ inv[r].pc = "idle"
        /\ "groq" \in DOMAIN lastError
        /\ ~Entry(providers, "groq").available
        /\ http.req[q].route = ChatRoute
        /\ http.req[q].responses = <<Respond(200, NoProviders(Response).value)>>

====
